---- MODULE Spec2Model ----
(***************************************************************************)
(* Model of kandidatentekort_auto.py: the Typeform webhook pipeline        *)
(* (typeform_webhook and the helpers it calls) against a Pipedrive CRM.    *)
(*                                                                         *)
(* Abstractions:                                                           *)
(*   - a text is represented by its length (a natural number), an email    *)
(*     by its sequence of characters, a file URL by "" or one URL;         *)
(*   - an external service (SMTP, file host, LLM, Pipedrive) answers each  *)
(*     call with one of the outcomes the helper distinguishes; a missing   *)
(*     API key or password is one of the ways a call fails;                *)
(*   - the CRM holds persons and deals; organizations and notes are        *)
(*     counted.                                                            *)
(***************************************************************************)
EXTENDS Naturals, Integers, Sequences, FiniteSets, TLC

\* ------------------------------------------------------------------ bounds
MaxRequests == 2

Requests == 1..MaxRequests

\* --------------------------------------------------------- program constants
PIPELINE_ID == 4
STAGE_ID == 21
MIN_TEXT_LEN == 50
NULL == 0

\* A pipeline and a stage other than the configured ones, and the stage a
\* deal reaches when a sales user qualifies it further.
OTHER_PIPELINE == PIPELINE_ID + 1
OTHER_STAGE == STAGE_ID + 1

\* ------------------------------------------------------------------ inputs
EmailAB == <<"a", "@", "b">>
EmailABUpper == <<"A", "@", "B">>
EmailCD == <<"c", "@", "d">>
EmailNoAt == <<"a", "b">>
EmailEmpty == <<>>

Emails == {EmailEmpty, EmailNoAt, EmailAB, EmailABUpper, EmailCD}

TextLens == {0, 49, 50, 51}
ExtractedLens == {0, 49, 50, 51}
FileUrl == "https://api.typeform.com/forms/f/responses/r/file.pdf"
FileUrls == {"", FileUrl}

\* One answer of form_response.answers: field.type and the values the parser
\* reads under the keys of the answer ("" and <<>>: the key is absent). text is
\* a length for a long text and a string for a short text.
Answer(type, email, text, file_url, company) ==
    [type |-> type, email |-> email, text |-> text, file_url |-> file_url,
     company |-> company, first_name |-> "", last_name |-> "",
     phone_number |-> "", choice |-> "", choices |-> <<>>]

\* A contact block: answer['contact_info'].
ContactBlock(email, first_name, last_name, phone_number, company) ==
    [Answer("contact_info", email, 0, "", company) EXCEPT
        !.first_name = first_name, !.last_name = last_name,
        !.phone_number = phone_number]

\* A phone_number answer.
PhoneAnswer(phone_number) ==
    [Answer("phone_number", EmailEmpty, 0, "", "") EXCEPT !.phone_number = phone_number]

\* A short_text answer.
ShortText(text) == Answer("short_text", EmailEmpty, text, "", "")

\* A multiple_choice answer with one selected option: answer['choice']['label'].
ChoiceAnswer(label) ==
    [Answer("multiple_choice", EmailEmpty, 0, "", "") EXCEPT !.choice = label]

\* A multiple_choice answer of a multi-select question: the selected labels
\* are under answer['choices']['labels'], and the answer has no 'choice' key.
ChoicesAnswer(labels) ==
    [Answer("multiple_choice", EmailEmpty, 0, "", "") EXCEPT !.choices = labels]

\* An element of the answers list that is no JSON object.
NotADict == Answer("not_a_dict", EmailEmpty, 0, "", "")

\* The webhook bodies the model submits: a JSON array, or a JSON object whose
\* answers hold at most one email, one long text, one file upload and one
\* contact block (with a company and no email).
Companies == {"", "Acme BV"}

AnswersOf(hasEmail, email, len, url, company) ==
    (IF hasEmail THEN <<Answer("email", email, 0, "", "")>> ELSE <<>>)
    \o (IF len > 0 THEN <<Answer("long_text", EmailEmpty, len, "", "")>> ELSE <<>>)
    \o (IF url # "" THEN <<Answer("file_upload", EmailEmpty, 0, url, "")>> ELSE <<>>)
    \o (IF company # "" THEN <<Answer("contact_info", EmailEmpty, 0, "", company)>>
        ELSE <<>>)

Payloads ==
    {[json |-> "array", answers |-> <<>>]}
    \cup {[json |-> "object", answers |-> AnswersOf(TRUE, EmailAB, n, u, "Acme BV")] :
            n \in TextLens, u \in FileUrls}
    \cup {[json |-> "object", answers |-> AnswersOf(TRUE, e, 51, "", c)] :
            e \in Emails, c \in Companies}
    \cup {[json |-> "object", answers |-> AnswersOf(FALSE, EmailEmpty, 51, u, "Acme BV")] :
            u \in FileUrls}

\* ------------------------------------------------------------ pure helpers
\* str.lower() on the characters the model uses.
lower_char(c) ==
    CASE c = "A" -> "a"
      [] c = "B" -> "b"
      [] OTHER -> c

lower(s) == [i \in DOMAIN s |-> lower_char(s[i])]

\* '@' in s
contains_at(s) == \E i \in DOMAIN s : s[i] = "@"

\* The record parse_typeform_data starts from.
default_result ==
    [email |-> EmailEmpty, voornaam |-> "daar", contact |-> "Onbekend",
     telefoon |-> "", bedrijf |-> "Onbekend", vacature |-> 0,
     functie |-> "vacature", sector |-> "", file_url |-> ""]

\* f"{first} {last}".strip(), for names without outer blanks.
full_name(first, last) ==
    IF last = "" THEN first
    ELSE IF first = "" THEN last
    ELSE first \o " " \o last

\* One iteration of the loop over the answers, the branches that write to
\* the result.
route_answer(answer, result) ==
    CASE answer.type = "email" -> [result EXCEPT !.email = answer.email]
      [] answer.type = "phone_number" ->
            [result EXCEPT !.telefoon = answer.phone_number]
      [] answer.type = "multiple_choice" ->
            [result EXCEPT !.sector = IF @ = "" THEN answer.choice ELSE @]
      [] answer.type = "long_text" ->
            [result EXCEPT !.vacature = answer.text,
                           !.functie = IF answer.text > 0 THEN "eerste regel"
                                       ELSE "vacature"]
      [] answer.type = "file_upload" -> [result EXCEPT !.file_url = answer.file_url]
      [] answer.type = "contact_info" ->
            [result EXCEPT !.email = IF answer.email # EmailEmpty THEN answer.email ELSE @,
                           !.voornaam = IF answer.first_name # "" THEN answer.first_name
                                        ELSE @,
                           !.contact = IF answer.first_name # ""
                                       THEN full_name(answer.first_name, answer.last_name)
                                       ELSE @,
                           !.telefoon = IF answer.phone_number # "" THEN answer.phone_number
                                        ELSE @,
                           !.bedrijf = IF answer.company # "" THEN answer.company ELSE @]
      [] OTHER -> result

\* The text of a short_text answer whose "text" is null.
NULL_TEXT == "null"

\* The iteration raises: text[:50] in the log line of a short_text answer
\* whose text is null.
answer_raises(answer) == answer.type = "short_text" /\ answer.text = NULL_TEXT

\* texts.append(text) of a short_text answer.
texts_after(answer, texts) ==
    IF answer.type = "short_text" THEN Append(texts, answer.text) ELSE texts

\* The loop over the answers: the result and the short texts collected, and
\* whether an exception ended the loop.
RECURSIVE parse_answers(_, _, _)
parse_answers(answers, result, texts) ==
    IF answers = <<>> THEN [result |-> result, texts |-> texts, raised |-> FALSE]
    ELSE IF answer_raises(Head(answers))
         THEN [result |-> result, texts |-> texts, raised |-> TRUE]
         ELSE parse_answers(Tail(answers), route_answer(Head(answers), result),
                            texts_after(Head(answers), texts))

\* "Process collected texts": first name, last name and company, in the
\* order of the short texts.
process_texts(result, texts) ==
    LET named == IF Len(texts) >= 1 /\ result.voornaam \in {"", "daar"}
                 THEN [result EXCEPT !.voornaam = texts[1], !.contact = texts[1]]
                 ELSE result
        contacted == IF Len(texts) >= 2
                     THEN [named EXCEPT !.contact = full_name(texts[1], texts[2])]
                     ELSE named
    IN  IF Len(texts) >= 3 /\ contacted.bedrijf \in {"", "Onbekend"}
        THEN [contacted EXCEPT !.bedrijf = texts[3]]
        ELSE contacted

\* parse_typeform_data: a body that is no JSON object makes .get raise inside
\* the try block, and the defaults are returned; an exception in the loop
\* skips the handling of the collected short texts, and the record filled so
\* far is returned.
parse_typeform_data(webhook_data) ==
    IF webhook_data.json # "object" THEN default_result
    ELSE LET parsed == parse_answers(webhook_data.answers, default_result, <<>>)
         IN  IF parsed.raised THEN parsed.result
             ELSE process_texts(parsed.result, parsed.texts)

\* typeform_webhook, the email validation.
email_is_valid(email) == email # EmailEmpty /\ contains_at(email)

\* typeform_webhook, the tests on the length of a text.
extracted_text_usable(len) == len > MIN_TEXT_LEN

analysis_needed(len) == len > MIN_TEXT_LEN


\* ------------------------------------------------------------------- state
VARIABLES
    persons,        \* Pipedrive persons: records [id, email, by]
    deals,          \* Pipedrive deals: records [id, person_id, org_id, pipeline_id,
                    \*   stage_id, status, title, notes, by]
    orgs,           \* number of Pipedrive organizations
    req,            \* per webhook request: position, locals and the calls made
    manual_review,  \* the manual-review toggle of the environment (never read
                    \*   by kandidatentekort_auto.py)
    nurture_deals,  \* the nurture custom fields of the deals of the pipeline
    today,          \* the current date, in days
    run,            \* per thread that runs process_nurture_emails: position
                    \*   and locals
    llm,            \* one call of analyze_vacancy_with_claude: its inputs, the
                    \*   answer of the LLM service and the value returned
    norm,           \* one call of parse_typeform_data: the payload and the
                    \*   record returned
    mail,           \* one request of GET /nurture/test/<email_num>
    apollo          \* one call of process_kandidatentekort_submission
                    \*   (apollo-integration.py)

webhook_vars == <<persons, deals, orgs, req, manual_review>>

nurture_vars == <<nurture_deals, today, run>>

call_vars == <<llm, norm, mail, apollo>>

\* What typeform_webhook leaves alone besides the CRM records.
webhook_frame == <<manual_review, nurture_vars, call_vars>>

\* What the nurture code leaves alone.
nurture_frame == <<webhook_vars, call_vars>>

vars == <<webhook_vars, nurture_vars, call_vars>>

\* The parts of the state a specification of another part holds fixed.
NurtureOff == nurture_deals = <<>> /\ today = 0 /\ run = <<>>

AnalyzeOff == llm = <<>>

ParserOff == norm = <<>>

MailOff == mail = <<>>

ApolloOff == apollo = <<>>

\* The locals of typeform_webhook before its first statement; `by` fields of
\* the CRM name the request that created a record (0: it existed before).
idle_request ==
    [pc |-> "idle", status |-> 0, p |-> default_result,
     confirmation_sent |-> FALSE, vacancy_text |-> 0, extracted_text |-> 0,
     analysis |-> "None", analysis_sent |-> FALSE, analysis_summary |-> "",
     existing_person_id |-> NULL, existing_deals |-> {},
     deal_id |-> NULL, person_id |-> NULL, org_id |-> NULL,
     updated_existing |-> FALSE, deal_person_arg |-> NULL, deal_org_arg |-> NULL,
     note_parts |-> {}, trace |-> <<>>]

\* No webhook request is received.
WebhookOff ==
    /\ persons = {} /\ deals = {} /\ orgs = 0
    /\ req = [r \in Requests |-> idle_request]
    /\ manual_review = FALSE

Person(id, email, by) == [id |-> id, email |-> email, by |-> by]

Deal(id, person_id, org_id, pipeline_id, stage_id, status, title, notes, by) ==
    [id |-> id, person_id |-> person_id, org_id |-> org_id,
     pipeline_id |-> pipeline_id, stage_id |-> stage_id, status |-> status,
     title |-> title, notes |-> notes, by |-> by]

\* The CRM before the first webhook call: empty, or one person (a Meta lead)
\* with no deal or with one deal.
MetaLead == Person(1, EmailAB, 0)

InitialCrms ==
    {[persons |-> {}, deals |-> {}],
     [persons |-> {MetaLead}, deals |-> {}]}
    \cup {[persons |-> {MetaLead},
           deals |-> {Deal(1, 1, NULL, k[1], k[2], k[3], "Meta Lead", 0, 0)}] :
            k \in {<<PIPELINE_ID, STAGE_ID, "open">>,
                   <<PIPELINE_ID, OTHER_STAGE, "open">>,
                   <<OTHER_PIPELINE, STAGE_ID, "open">>,
                   <<PIPELINE_ID, STAGE_ID, "won">>}}

Init ==
    /\ \E crm \in InitialCrms : persons = crm.persons /\ deals = crm.deals
    /\ orgs = 0
    /\ req = [r \in Requests |-> idle_request]
    /\ manual_review \in BOOLEAN
    /\ NurtureOff /\ AnalyzeOff /\ ParserOff /\ MailOff /\ ApolloOff

\* ------------------------------------------------------------ bookkeeping
called(r, event) == [req EXCEPT ![r].trace = Append(@, event)]

\* An exception that reaches the handler's own except clause: HTTP 500.
raised(rq) == [rq EXCEPT !.pc = "respond", !.status = 500]

new_person_id == Cardinality(persons) + 1
new_deal_id == Cardinality(deals) + 1

crm_unchanged == UNCHANGED <<persons, deals, orgs>>


\* ----------------------------------------------------- outcomes of the calls
\* analyze_vacancy_with_claude: no result; the empty JSON object; a result of
\* the requested schema; a JSON object whose improved_text is null; a JSON
\* object whose top_3_improvements are objects instead of strings.
AnalysisResults ==
    {"None", "empty", "ok", "improved_text_null", "improvements_not_str"}

\* typeform_webhook, `if analysis:` (None and {} are false).
truthy(analysis) == analysis \notin {"None", "empty"}

\* get_analysis_email_html(analysis) raises (len() of None).
render_raises(analysis) == analysis = "improved_text_null"

\* The analysis summary of typeform_webhook raises ('- ' + imp on a dict, or
\* None[:1500]).
summary_raises(analysis) == analysis \in {"improved_text_null", "improvements_not_str"}

\* The parts of the note create_pipedrive_deal and update_deal_with_vacancy
\* build.
note_parts_of(vacature, file_url, analysis) ==
    (IF vacature > 0 THEN {"VACATURE"} ELSE {})
    \cup (IF file_url # "" THEN {"BESTAND"} ELSE {})
    \cup (IF analysis # "" THEN {"ANALYSE"} ELSE {})

\* find_person_by_email: the persons whose email equals the searched one,
\* compared in lower case.
persons_matching(email) == {q \in persons : lower(q.email) = lower(email)}

\* get_person_deals_in_pipeline: the open deals of the person (the request's
\* status filter) that are in the pipeline.
deal_in_pipeline(d, person_id, pipeline_id) ==
    /\ d.person_id = person_id
    /\ d.status = "open"
    /\ d.pipeline_id = pipeline_id

person_deals_in_pipeline(person_id, pipeline_id) ==
    {d.id : d \in {x \in deals : deal_in_pipeline(x, person_id, pipeline_id)}}

deal_by_id(id) == CHOOSE d \in deals : d.id = id

\* Faulty variant of create_needed: new records are created in every case.
create_needed_always(deal_id) == TRUE

\* typeform_webhook, `if not deal_id`: new records are created when no existing
\* deal was taken.

create_needed(deal_id) == deal_id = NULL

\* ---------------------------------------------------------------- actions
\* typeform_webhook up to the email validation.
receive(r, payload) ==
    LET rq == req[r]
        p == parse_typeform_data(payload)
    IN  /\ rq.pc = "idle"
        /\ req' = [req EXCEPT ![r] =
                IF payload.json # "object" THEN raised(rq)
                ELSE IF ~email_is_valid(p.email)
                     THEN [rq EXCEPT !.pc = "respond", !.status = 400, !.p = p]
                     ELSE [rq EXCEPT !.pc = "confirm", !.p = p]]
        /\ crm_unchanged /\ UNCHANGED webhook_frame

\* One request at a time: a request is received when the ones before it have
\* been answered.
Receive(r) ==
    /\ \A q \in Requests : req[q].pc \in {"idle", "done"}
    /\ \A q \in Requests : q < r => req[q].pc = "done"
    /\ \E payload \in Payloads : receive(r, payload)

\* Faulty variant of SendConfirmation: an uploaded file is downloaded before
\* the confirmation is sent.
SendConfirmation_late(r) ==
    LET rq == req[r] IN
    /\ rq.pc = "confirm"
    /\ \E ok \in BOOLEAN :
        req' = [req EXCEPT ![r] =
            [rq EXCEPT !.pc = "extract",
                       !.confirmation_sent = ok,
                       !.vacancy_text = rq.p.vacature,
                       !.trace = IF rq.p.file_url # ""
                                 THEN @ \o <<"extract_text_from_file",
                                             "send_confirmation_email">>
                                 ELSE Append(@, "send_confirmation_email")]]
    /\ crm_unchanged /\ UNCHANGED webhook_frame

SendConfirmation(r) ==
    LET rq == req[r] IN
    /\ rq.pc = "confirm"
    /\ \E ok \in BOOLEAN :
        req' = [req EXCEPT ![r] =
            [rq EXCEPT !.pc = "extract",
                       !.confirmation_sent = ok,
                       !.vacancy_text = rq.p.vacature,
                       !.trace = Append(@, "send_confirmation_email")]]
    /\ crm_unchanged /\ UNCHANGED webhook_frame

ExtractFile(r) ==
    LET rq == req[r] IN
    /\ rq.pc = "extract"
    /\ IF rq.p.file_url = ""
       THEN req' = [req EXCEPT ![r].pc = "analyze"]
       ELSE \E extracted \in ExtractedLens :
            req' = [req EXCEPT ![r] =
                [rq EXCEPT !.pc = "analyze",
                           !.extracted_text = extracted,
                           !.vacancy_text = IF extracted_text_usable(extracted)
                                            THEN extracted ELSE @,
                           !.trace = Append(@, "extract_text_from_file")]]
    /\ crm_unchanged /\ UNCHANGED webhook_frame

\* Faulty variant of Analyze: a call that returned no result is repeated
\* once.
Analyze_retry(r) ==
    LET rq == req[r] IN
    /\ rq.pc = "analyze"
    /\ IF ~analysis_needed(rq.vacancy_text)
       THEN req' = [req EXCEPT ![r].pc = "summary", ![r].extracted_text = 0]
       ELSE \E a, b \in AnalysisResults :
            LET last == IF a = "None" THEN b ELSE a IN
            req' = [req EXCEPT ![r] =
                [rq EXCEPT !.pc = IF truthy(last) THEN "report" ELSE "summary",
                           !.analysis = last,
                           !.extracted_text = 0,
                           !.trace = IF a = "None"
                                     THEN @ \o <<"analyze_vacancy_with_claude",
                                                 "analyze_vacancy_with_claude">>
                                     ELSE Append(@, "analyze_vacancy_with_claude")]]
    /\ crm_unchanged /\ UNCHANGED webhook_frame

\* Faulty variant of Analyze: the report is sent after every LLM call,
\* whatever it returned.
Analyze_report_always(r) ==
    LET rq == req[r] IN
    /\ rq.pc = "analyze"
    /\ IF ~analysis_needed(rq.vacancy_text)
       THEN req' = [req EXCEPT ![r].pc = "summary", ![r].extracted_text = 0]
       ELSE \E a \in AnalysisResults :
            req' = [req EXCEPT ![r] =
                [rq EXCEPT !.pc = "report",
                           !.analysis = a,
                           !.extracted_text = 0,
                           !.trace = Append(@, "analyze_vacancy_with_claude")]]
    /\ crm_unchanged /\ UNCHANGED webhook_frame

\* The analysis step; extracted_text is not read after line 1079 and is
\* dropped here.
Analyze(r) ==
    LET rq == req[r] IN
    /\ rq.pc = "analyze"
    /\ IF ~analysis_needed(rq.vacancy_text)
       THEN req' = [req EXCEPT ![r].pc = "summary", ![r].extracted_text = 0]
       ELSE \E a \in AnalysisResults :
            req' = [req EXCEPT ![r] =
                [rq EXCEPT !.pc = IF truthy(a) THEN "report" ELSE "summary",
                           !.analysis = a,
                           !.extracted_text = 0,
                           !.trace = Append(@, "analyze_vacancy_with_claude")]]
    /\ crm_unchanged /\ UNCHANGED webhook_frame

\* send_analysis_email: the HTML is rendered before send_email is entered.
SendReport(r) ==
    LET rq == req[r] IN
    /\ rq.pc = "report"
    /\ IF render_raises(rq.analysis)
       THEN req' = [req EXCEPT ![r] =
                [raised(rq) EXCEPT !.trace = Append(@, "get_analysis_email_html")]]
       ELSE \E ok \in BOOLEAN :
            req' = [req EXCEPT ![r] =
                [rq EXCEPT !.pc = "summary",
                           !.analysis_sent = ok,
                           !.trace = Append(@, "send_analysis_email")]]
    /\ crm_unchanged /\ UNCHANGED webhook_frame

BuildSummary(r) ==
    LET rq == req[r] IN
    /\ rq.pc = "summary"
    /\ req' = [req EXCEPT ![r] =
            IF truthy(rq.analysis) /\ summary_raises(rq.analysis) THEN raised(rq)
            ELSE [rq EXCEPT !.pc = "find",
                            !.analysis_summary = IF truthy(rq.analysis)
                                                 THEN "SCORE" ELSE ""]]
    /\ crm_unchanged /\ UNCHANGED webhook_frame


FindPerson(r) ==
    LET rq == req[r]
        found(id) == [rq EXCEPT !.pc = IF id # NULL THEN "deals" ELSE "create_org",
                                !.existing_person_id = id,
                                !.trace = Append(@, "find_person_by_email")]
    IN  /\ rq.pc = "find"
        /\ \/ req' = [req EXCEPT ![r] = found(NULL)]
           \/ \E q \in persons_matching(rq.p.email) :
                req' = [req EXCEPT ![r] = found(q.id)]
        /\ crm_unchanged /\ UNCHANGED webhook_frame

GetDeals(r) ==
    LET rq == req[r]
        got(ids) == [rq EXCEPT !.pc = IF ids # {} THEN "update" ELSE "create_org",
                               !.existing_deals = ids,
                               !.trace = Append(@, "get_person_deals_in_pipeline")]
    IN  /\ rq.pc = "deals"
        /\ \/ req' = [req EXCEPT ![r] = got({})]
           \/ req' = [req EXCEPT ![r] =
                    got(person_deals_in_pipeline(rq.existing_person_id, PIPELINE_ID))]
        /\ crm_unchanged /\ UNCHANGED webhook_frame

\* The existing-deal branch: update_deal_with_vacancy on existing_deals[0].
\* put: the answer to PUT /deals/<id>; note: the answer to POST /notes.
UpdateDeal(r) ==
    LET rq == req[r] IN
    /\ rq.pc = "update"
    /\ \E id \in rq.existing_deals, put \in {"ok", "rejected", "error"}, note \in BOOLEAN :
        LET d == deal_by_id(id)
            d2 == [d EXCEPT !.title = IF put = "ok" THEN "Vacature Analyse" ELSE @,
                            !.notes = IF put # "error" /\ note THEN @ + 1 ELSE @]
        IN  /\ deals' = (deals \ {d}) \cup {d2}
            /\ req' = [req EXCEPT ![r] =
                    [rq EXCEPT !.pc = IF create_needed(id) THEN "create_org" ELSE "respond",
                               !.status = IF create_needed(id) THEN @ ELSE 200,
                               !.deal_id = id,
                               !.person_id = rq.existing_person_id,
                               !.org_id = d.org_id,
                               !.updated_existing = TRUE,
                               !.note_parts =
                                    IF put # "error"
                                    THEN {"UPDATE"} \cup note_parts_of(rq.vacancy_text,
                                            rq.p.file_url, rq.analysis_summary)
                                    ELSE {},
                               !.trace = Append(@, "update_deal_with_vacancy")]]
    /\ UNCHANGED <<persons, orgs, webhook_frame>>

\* create_pipedrive_organization: no request is made for the placeholder name.
CreateOrg(r) ==
    LET rq == req[r]
        done(id) == [rq EXCEPT !.pc = "create_person", !.org_id = id,
                               !.trace = Append(@, "create_pipedrive_organization")]
    IN  /\ rq.pc = "create_org"
        /\ \/ /\ req' = [req EXCEPT ![r] = done(NULL)]
              /\ orgs' = orgs
           \/ /\ rq.p.bedrijf # "Onbekend"
              /\ req' = [req EXCEPT ![r] = done(orgs + 1)]
              /\ orgs' = orgs + 1
        /\ UNCHANGED <<persons, deals, webhook_frame>>

\* Faulty variant of CreatePerson: without a person the handler returns
\* before the deal is created.
CreatePerson_required(r) ==
    LET rq == req[r] IN
    /\ rq.pc = "create_person"
    /\ IF rq.existing_person_id # NULL
       THEN /\ req' = [req EXCEPT ![r] =
                    [rq EXCEPT !.pc = "create_deal", !.person_id = rq.existing_person_id]]
            /\ persons' = persons
       ELSE \/ /\ req' = [req EXCEPT ![r] =
                    [rq EXCEPT !.pc = "respond", !.status = 200, !.person_id = NULL,
                               !.trace = Append(@, "create_pipedrive_person")]]
               /\ persons' = persons
            \/ /\ req' = [req EXCEPT ![r] =
                    [rq EXCEPT !.pc = "create_deal", !.person_id = new_person_id,
                               !.trace = Append(@, "create_pipedrive_person")]]
               /\ persons' = persons \cup {Person(new_person_id, rq.p.email, r)}
    /\ UNCHANGED <<deals, orgs, webhook_frame>>

\* person_id = existing_person_id or create_pipedrive_person(...)
CreatePerson(r) ==
    LET rq == req[r] IN
    /\ rq.pc = "create_person"
    /\ IF rq.existing_person_id # NULL
       THEN /\ req' = [req EXCEPT ![r] =
                    [rq EXCEPT !.pc = "create_deal", !.person_id = rq.existing_person_id]]
            /\ persons' = persons
       ELSE \/ /\ req' = [req EXCEPT ![r] =
                    [rq EXCEPT !.pc = "create_deal", !.person_id = NULL,
                               !.trace = Append(@, "create_pipedrive_person")]]
               /\ persons' = persons
            \/ /\ req' = [req EXCEPT ![r] =
                    [rq EXCEPT !.pc = "create_deal", !.person_id = new_person_id,
                               !.trace = Append(@, "create_pipedrive_person")]]
               /\ persons' = persons \cup {Person(new_person_id, rq.p.email, r)}
    /\ UNCHANGED <<deals, orgs, webhook_frame>>

\* create_pipedrive_deal. outcome: POST /deals fails; the deal is created and
\* the note (if any) is stored; the deal is created and POST /notes is
\* answered with an error status (ignored); the deal is created and POST
\* /notes raises, so that None is returned.
CreateDeal(r) ==
    LET rq == req[r]
        parts == note_parts_of(rq.vacancy_text, rq.p.file_url, rq.analysis_summary)
        called_with == [rq EXCEPT !.pc = "respond", !.status = 200,
                                  !.deal_person_arg = rq.person_id,
                                  !.deal_org_arg = rq.org_id,
                                  !.trace = Append(@, "create_pipedrive_deal")]
    IN  /\ rq.pc = "create_deal"
        /\ \E outcome \in {"failed", "created", "note_rejected", "note_raised"} :
            IF outcome = "failed"
            THEN /\ req' = [req EXCEPT ![r] = called_with]
                 /\ deals' = deals
            ELSE /\ outcome # "created" => parts # {}
                 /\ req' = [req EXCEPT ![r] =
                        [called_with EXCEPT
                            !.deal_id = IF outcome = "note_raised" THEN NULL
                                        ELSE new_deal_id,
                            !.note_parts = parts]]
                 /\ deals' = deals \cup
                        {Deal(new_deal_id, rq.person_id, rq.org_id, PIPELINE_ID, STAGE_ID,
                              "open", "Vacature Analyse",
                              IF outcome = "created" /\ parts # {} THEN 1 ELSE 0, r)}
        /\ UNCHANGED <<persons, orgs, webhook_frame>>

\* The handler returns; its locals are gone.
Respond(r) ==
    /\ req[r].pc = "respond"
    /\ req' = [req EXCEPT ![r] = [idle_request EXCEPT !.pc = "done"]]
    /\ crm_unchanged /\ UNCHANGED webhook_frame

\* A Pipedrive user moves a deal the webhook created out of the intake stage,
\* between two webhook calls.
MoveDeal(id) ==
    LET d == deal_by_id(id) IN
    /\ \A q \in Requests : req[q].pc \in {"idle", "done"}
    /\ d.by # 0 /\ d.status = "open" /\ d.stage_id = STAGE_ID
    /\ deals' = (deals \ {d}) \cup {[d EXCEPT !.stage_id = OTHER_STAGE]}
    /\ UNCHANGED <<persons, orgs, req, webhook_frame>>

Next ==
    \/ \E d \in deals : MoveDeal(d.id)
    \/ \E r \in Requests :
        \/ Receive(r)
        \/ SendConfirmation(r)
        \/ ExtractFile(r)
        \/ Analyze(r)
        \/ SendReport(r)
        \/ BuildSummary(r)
        \/ FindPerson(r)
        \/ GetDeals(r)
        \/ UpdateDeal(r)
        \/ CreateOrg(r)
        \/ CreatePerson(r)
        \/ CreateDeal(r)
        \/ Respond(r)

Spec == Init /\ [][Next]_vars

\* ------------------------------------------------- concurrent webhook calls
\* The server handles each request in a thread of its own (app.run). The
\* requests carry the same email, a company and a vacancy text, and no file.
ConcurrentPayloads ==
    {[json |-> "object", answers |-> AnswersOf(TRUE, EmailAB, 51, "", "Acme BV")]}

InitConcurrent ==
    /\ WebhookOff
    /\ NurtureOff /\ AnalyzeOff /\ ParserOff /\ MailOff /\ ApolloOff

\* A request is received whatever the other requests are doing.
ReceiveConcurrent(r) == \E payload \in ConcurrentPayloads : receive(r, payload)

NextConcurrent ==
    \E r \in Requests :
        \/ ReceiveConcurrent(r)
        \/ SendConfirmation(r)
        \/ ExtractFile(r)
        \/ Analyze(r)
        \/ SendReport(r)
        \/ BuildSummary(r)
        \/ FindPerson(r)
        \/ GetDeals(r)
        \/ UpdateDeal(r)
        \/ CreateOrg(r)
        \/ CreatePerson(r)
        \/ CreateDeal(r)
        \/ Respond(r)

SpecConcurrent == InitConcurrent /\ [][NextConcurrent]_vars


\* =========================================================== nurture sequence
\* ------------------------------------------------------------------ bounds
MaxNurtureDeals == 1
MaxDay == 31
MaxStartDay == 1

NurtureDealIds == 1..MaxNurtureDeals

\* --------------------------------------------------------- program constants
NURTURE_ACTIVE_STAGE == 21
LAST_EMAIL == 8
NO_SCHEDULED_DAY == 999

\* EMAIL_SCHEDULE[n]["day"] for the steps 1..8.
EMAIL_SCHEDULE == <<1, 3, 5, 8, 11, 14, 21, 30>>

Steps == DOMAIN EMAIL_SCHEDULE

\* The sequence statuses get_deals_for_nurture skips.
HaltedStatuses == {"Completed", "Gepauzeerd", "Voltooid", "Responded", "Unsubscribed"}

\* The threads that call process_nurture_emails: the background thread of
\* nurture_scheduler and a request thread of POST /nurture/process.
Runners == {"scheduler", "request"}

\* A deal without a report date (the custom field is empty).
NoDate == -1

\* ------------------------------------------------------------ pure helpers
\* EMAIL_SCHEDULE.get(next_email, {}).get('day', 999)
scheduled_day(next_email) ==
    IF next_email \in DOMAIN EMAIL_SCHEDULE THEN EMAIL_SCHEDULE[next_email]
    ELSE NO_SCHEDULED_DAY

\* update_deal_nurture_status: the option written for a step.
email_options ==
    <<"Email 1", "Email 2", "Email 3", "Email 4",
      "Email 5", "Email 6", "Email 7", "Email 8">>

\* get_deals_for_nurture: int(laatste_email.replace('Email ', '')), and 0 for
\* an empty field or a value that is no number.
current_email_of(laatste_email) ==
    IF \E n \in DOMAIN email_options : email_options[n] = laatste_email
    THEN CHOOSE n \in DOMAIN email_options : email_options[n] = laatste_email
    ELSE 0

\* Faulty variant of next_email_of: a step is skipped.
next_email_skipping(laatste_email) == current_email_of(laatste_email) + 2

\* get_deals_for_nurture: next_email = current_email + 1.
next_email_of(laatste_email) == current_email_of(laatste_email) + 1

\* get_deals_for_nurture, the request: the deals of pipeline 4 (the deals
\* modelled) that are open.
in_response(deal) == deal.status = "open"

\* Faulty variant of due_for_nurture: the stage of the deal is not tested.
due_in_any_stage(deal, day) ==
    /\ deal.rapport_verzonden # NoDate
    /\ deal.sequence_status \notin HaltedStatuses
    /\ next_email_of(deal.laatste_email) <= LAST_EMAIL
    /\ day - deal.rapport_verzonden >= scheduled_day(next_email_of(deal.laatste_email))

\* get_deals_for_nurture, the body of the loop: the deal is appended to
\* deals_to_email.
due_for_nurture(deal, day) ==
    /\ deal.stage_id = NURTURE_ACTIVE_STAGE
    /\ deal.rapport_verzonden # NoDate
    /\ deal.sequence_status \notin HaltedStatuses
    /\ next_email_of(deal.laatste_email) <= LAST_EMAIL
    /\ day - deal.rapport_verzonden >= scheduled_day(next_email_of(deal.laatste_email))

\* One element of deals_to_email, the keys process_nurture_emails does not
\* read left out (halted_before: whether the deal's sequence had been halted
\* at some time before the deals were fetched).
nurture_entry(id, deal) ==
    [deal_id |-> id,
     next_email |-> next_email_of(deal.laatste_email),
     halted_before |-> deal.halted]

RECURSIVE deals_to_email(_, _, _)
deals_to_email(id, all, day) ==
    IF id > MaxNurtureDeals THEN <<>>
    ELSE (IF in_response(all[id]) /\ due_for_nurture(all[id], day)
          THEN <<nurture_entry(id, all[id])>> ELSE <<>>)
         \o deals_to_email(id + 1, all, day)

\* get_deals_for_nurture when the deals request succeeds.
get_deals_for_nurture == deals_to_email(1, nurture_deals, today)

\* ------------------------------------------------------------------- state
\* A deal of the pipeline as the nurture code sees it. sent holds the steps
\* of which an email was delivered for the deal; halted records that the
\* sequence status was once one of HaltedStatuses.
new_nurture_deal(stage_id) ==
    [stage_id |-> stage_id, status |-> "open", rapport_verzonden |-> NoDate,
     sequence_status |-> "", laatste_email |-> "", sent |-> {}, halted |-> FALSE]

idle_run == [pc |-> "idle", deals |-> <<>>]

InitNurture ==
    /\ nurture_deals \in
            [NurtureDealIds ->
                {new_nurture_deal(NURTURE_ACTIVE_STAGE),
                 new_nurture_deal(OTHER_STAGE),
                 [new_nurture_deal(NURTURE_ACTIVE_STAGE) EXCEPT !.status = "won"]}]
    /\ today = 0
    /\ run = [k \in Runners |-> idle_run]
    /\ WebhookOff /\ AnalyzeOff /\ ParserOff /\ MailOff /\ ApolloOff

\* ---------------------------------------------------------------- actions
\* process_nurture_emails up to the loop: the deals are fetched, or the
\* request fails and the list is empty.
StartRun(k) ==
    /\ run[k].pc = "idle"
    /\ \E fetched \in {<<>>, get_deals_for_nurture} :
        run' = [run EXCEPT ![k] = [pc |-> "loop", deals |-> fetched]]
    /\ UNCHANGED <<nurture_deals, today, nurture_frame>>

\* One iteration up to the send: get_person_email finds no email, or
\* send_nurture_email fails, or the email is delivered.
SendNurture(k) ==
    LET entry == Head(run[k].deals)
        deal == nurture_deals[entry.deal_id]
    IN  /\ run[k].pc = "loop" /\ run[k].deals # <<>>
        /\ \/ /\ run' = [run EXCEPT ![k].deals = Tail(@)]
              /\ UNCHANGED nurture_deals
           \/ /\ run' = [run EXCEPT ![k].pc = "update"]
              /\ nurture_deals' =
                    [nurture_deals EXCEPT ![entry.deal_id].sent = @ \cup {entry.next_email}]
        /\ UNCHANGED <<today, nurture_frame>>

\* update_deal_nurture_status after a delivered email: the fields are written,
\* or the request fails.
RecordStep(k) ==
    LET entry == Head(run[k].deals)
        deal == nurture_deals[entry.deal_id]
    IN  /\ run[k].pc = "update"
        /\ run' = [run EXCEPT ![k] = [pc |-> "loop", deals |-> Tail(@.deals)]]
        /\ \/ UNCHANGED nurture_deals
           \/ nurture_deals' = [nurture_deals EXCEPT ![entry.deal_id] =
                    [deal EXCEPT !.laatste_email = email_options[entry.next_email],
                                 !.sequence_status =
                                    IF entry.next_email = LAST_EMAIL THEN "Completed" ELSE @,
                                 !.halted = @ \/ entry.next_email = LAST_EMAIL]]
        /\ UNCHANGED <<today, nurture_frame>>

\* process_nurture_emails returns.
FinishRun(k) ==
    /\ run[k].pc = "loop" /\ run[k].deals = <<>>
    /\ run' = [run EXCEPT ![k] = idle_run]
    /\ UNCHANGED <<nurture_deals, today, nurture_frame>>

\* start_nurture_deal (POST /nurture/start/<deal_id>), the request succeeding;
\* sequences are started on the first days only.
StartNurture(id) ==
    /\ today <= MaxStartDay
    /\ nurture_deals' = [nurture_deals EXCEPT ![id].rapport_verzonden = today,
                                              ![id].sequence_status = "Actief"]
    /\ UNCHANGED <<today, run, nurture_frame>>

\* A Pipedrive user pauses the sequence of a deal or marks it as responded.
MarkStatus(id, status) ==
    /\ nurture_deals[id].sequence_status # status
    /\ nurture_deals' = [nurture_deals EXCEPT ![id].sequence_status = status,
                                              ![id].halted = TRUE]
    /\ UNCHANGED <<today, run, nurture_frame>>

\* A Pipedrive user moves a deal out of the active stage.
LeaveStage(id) ==
    /\ nurture_deals[id].stage_id = NURTURE_ACTIVE_STAGE
    /\ nurture_deals' = [nurture_deals EXCEPT ![id].stage_id = OTHER_STAGE]
    /\ UNCHANGED <<today, run, nurture_frame>>

\* A day passes.
NextDay ==
    /\ today < MaxDay
    /\ today' = today + 1
    /\ UNCHANGED <<nurture_deals, run, nurture_frame>>

NextNurture ==
    \/ NextDay
    \/ \E k \in Runners : StartRun(k) \/ SendNurture(k) \/ RecordStep(k) \/ FinishRun(k)
    \/ \E id \in NurtureDealIds :
        \/ StartNurture(id)
        \/ LeaveStage(id)
        \/ \E status \in {"Gepauzeerd", "Responded"} : MarkStatus(id, status)

SpecNurture == InitNurture /\ [][NextNurture]_vars


\* ================================================ analyze_vacancy_with_claude
\* The text of an LLM answer is a sequence over four symbols: the two braces,
\* "m" for one well-formed member ("key": value) and "x" for any other text.
\* ------------------------------------------------------------------ bounds
MaxTextLen == 4

\* ------------------------------------------------------------------ inputs
TextSymbols == {"{", "}", "m", "x"}

ResponseTexts == UNION {[1..n -> TextSymbols] : n \in 0..MaxTextLen}

StatusCodes == {200, 429, 500}

\* ------------------------------------------------------------ pure helpers
\* str.find(c): the index (from 0) of the first c, or -1.
find(text, c) ==
    IF \E i \in DOMAIN text : text[i] = c
    THEN (CHOOSE i \in DOMAIN text :
            text[i] = c /\ \A j \in 1..(i - 1) : text[j] # c) - 1
    ELSE -1

\* str.rfind(c): the index (from 0) of the last c, or -1.
rfind(text, c) ==
    IF \E i \in DOMAIN text : text[i] = c
    THEN (CHOOSE i \in DOMAIN text :
            text[i] = c /\ \A j \in (i + 1)..Len(text) : text[j] # c) - 1
    ELSE -1

\* text[start:end] for 0 <= start <= end.
slice(text, start, end) == SubSeq(text, start + 1, end)

\* json.loads accepts the text from position i on, depth objects being open:
\* members and nested objects inside an object, nothing after the object.
RECURSIVE json_accepts(_, _, _)
json_accepts(text, i, depth) ==
    IF i > Len(text) THEN depth = 0 /\ i > 1
    ELSE CASE text[i] = "{" -> (i = 1 \/ depth > 0) /\ json_accepts(text, i + 1, depth + 1)
           [] text[i] = "}" -> /\ depth > 0
                               /\ (depth = 1 => i = Len(text))
                               /\ json_accepts(text, i + 1, depth - 1)
           [] text[i] = "m" -> depth > 0 /\ json_accepts(text, i + 1, depth)
           [] OTHER -> FALSE

\* json.loads(text): the parsed value (represented by its text), or an
\* exception.
json_loads(text) ==
    IF json_accepts(text, 1, 0) THEN [raises |-> FALSE, value |-> text]
    ELSE [raises |-> TRUE, value |-> <<>>]

\* Faulty variant of json_end_of: the closing brace is left out of the slice.
json_end_before_brace(response_text) == rfind(response_text, "}")

\* json_end = response_text.rfind('}') + 1
json_end_of(response_text) == rfind(response_text, "}") + 1

\* The values analyze_vacancy_with_claude returns: None, or the parsed JSON.
no_analysis == [is_none |-> TRUE, value |-> <<>>]

parsed_analysis(value) == [is_none |-> FALSE, value |-> value]

\* analyze_vacancy_with_claude from the API key test on. api_key: the key is
\* set; outcome: the POST returns or raises (timeout, connection error);
\* body_ok: r.json()['content'][0]['text'] is a string.
analyze_vacancy_with_claude(api_key, outcome, status_code, body_ok, response_text) ==
    IF ~api_key THEN no_analysis
    ELSE IF outcome # "answered" THEN no_analysis
    ELSE IF status_code # 200 THEN no_analysis
    ELSE IF ~body_ok THEN no_analysis
    ELSE LET json_start == find(response_text, "{")
             json_end == json_end_of(response_text)
         IN  IF json_start >= 0 /\ json_end > json_start
             THEN LET parsed == json_loads(slice(response_text, json_start, json_end))
                  IN  IF parsed.raises THEN no_analysis
                      ELSE parsed_analysis(parsed.value)
             ELSE no_analysis

\* ------------------------------------------------------------------- state
InitAnalyze ==
    /\ llm \in [pc : {"called"}, api_key : BOOLEAN, outcome : {"answered", "timeout"},
                status_code : StatusCodes, body_ok : BOOLEAN,
                response_text : ResponseTexts, result : {no_analysis}]
    /\ WebhookOff /\ NurtureOff /\ ParserOff /\ MailOff /\ ApolloOff

\* The call returns.
AnalyzeReturns ==
    /\ llm.pc = "called"
    /\ llm' = [llm EXCEPT !.pc = "returned",
                          !.result = analyze_vacancy_with_claude(llm.api_key, llm.outcome,
                                        llm.status_code, llm.body_ok, llm.response_text)]
    /\ UNCHANGED <<webhook_vars, nurture_vars, norm, mail, apollo>>

NextAnalyze == AnalyzeReturns

SpecAnalyze == InitAnalyze /\ [][NextAnalyze]_vars


\* ======================================================= parse_typeform_data
\* ------------------------------------------------------------------ bounds
MaxAnswers == 3

\* ------------------------------------------------------------------ inputs
\* A contact block with every field filled in.
FullContactBlock == ContactBlock(EmailAB, "Jan", "Smit", "0612", "Acme BV")

\* The labels a multi-select answer can hold.
Labels == <<"IT", "Zorg">>

\* The answers of a nested payload: an email answer, a contact block with a
\* company only or with every field, a long text, short texts (one of them
\* null), a phone number, a choice, the choices of a multi-select question,
\* and an element that is no object.
ParserAnswers ==
    {Answer("email", e, 0, "", "") : e \in {EmailAB, EmailCD, EmailNoAt}}
    \cup {ContactBlock(EmailEmpty, "", "", "", "Acme BV"), FullContactBlock}
    \cup {Answer("long_text", EmailEmpty, 51, "", "")}
    \cup {ShortText(t) : t \in {"Piet", "Bos", NULL_TEXT}}
    \cup {PhoneAnswer("0699"), ChoiceAnswer("IT"), ChoicesAnswer(Labels), NotADict}

\* A payload of the nested shape (form_response.answers), and one of the flat
\* shape (the email under a key of the object itself, no form_response).
NestedPayload(answers) ==
    [json |-> "object", shape |-> "nested", email |-> EmailEmpty, answers |-> answers]

FlatPayload(email) ==
    [json |-> "object", shape |-> "flat", email |-> email, answers |-> <<>>]

ParserPayloads ==
    {FlatPayload(e) : e \in Emails}
    \cup {NestedPayload(a) : a \in UNION {[1..n -> ParserAnswers] : n \in 0..MaxAnswers}}

\* ------------------------------------------------------------------- state
InitParser ==
    /\ norm \in [pc : {"called"}, webhook_data : ParserPayloads, result : {default_result}]
    /\ WebhookOff /\ NurtureOff /\ AnalyzeOff /\ MailOff /\ ApolloOff

\* The call returns.
ParseReturns ==
    /\ norm.pc = "called"
    /\ norm' = [norm EXCEPT !.pc = "returned",
                            !.result = parse_typeform_data(norm.webhook_data)]
    /\ UNCHANGED <<webhook_vars, nurture_vars, llm, mail, apollo>>

NextParser == ParseReturns

SpecParser == InitParser /\ [][NextParser]_vars


\* ================================================= GET /nurture/test/<n>
\* ------------------------------------------------------------------ bounds
MaxEmailNum == 12

\* ------------------------------------------------------------------ inputs
\* The values of <int:email_num>: the converter accepts the integers from 0.
EmailNums == 0..MaxEmailNum

\* ------------------------------------------------------------ pure helpers
\* get_nurture_email_subject: subjects.get(email_num, "Follow-up ...").
get_nurture_email_subject(email_num) ==
    IF email_num \in Steps THEN "subject of the step"
    ELSE "Follow-up van kandidatentekort.nl"

\* Faulty variant of get_nurture_email_html: an unknown step falls back to
\* the template of step 1.
get_nurture_email_html_default(email_num) == "template of the step"

\* get_nurture_email_html: templates.get(email_num, "").
get_nurture_email_html(email_num) ==
    IF email_num \in Steps THEN "template of the step" ELSE ""

\* send_nurture_email: the value returned and whether a message was handed
\* to the SMTP server. password: GMAIL_APP_PASSWORD is set; smtp: the
\* connection, login and send succeed, or one of them raises.
send_nurture_email(password, email_num, smtp) ==
    IF ~password THEN [success |-> FALSE, delivered |-> FALSE]
    ELSE IF get_nurture_email_html(email_num) = ""
         THEN [success |-> FALSE, delivered |-> FALSE]
         ELSE IF smtp = "ok" THEN [success |-> TRUE, delivered |-> TRUE]
              ELSE [success |-> FALSE, delivered |-> FALSE]

\* ------------------------------------------------------------------- state
InitMail ==
    /\ mail \in [pc : {"requested"}, email_num : EmailNums, password : BOOLEAN,
                 smtp : {"ok", "error"}, success : {FALSE}, delivered : {FALSE},
                 status : {0}]
    /\ WebhookOff /\ NurtureOff /\ AnalyzeOff /\ ParserOff /\ ApolloOff

\* ---------------------------------------------------------------- actions
\* test_nurture_email up to the return of send_nurture_email.
SendTest ==
    LET sent == send_nurture_email(mail.password, mail.email_num, mail.smtp) IN
    /\ mail.pc = "requested"
    /\ mail' = [mail EXCEPT !.pc = "sent", !.success = sent.success,
                            !.delivered = sent.delivered]
    /\ UNCHANGED <<webhook_vars, nurture_vars, llm, norm, apollo>>

\* test_nurture_email returns: 200 if success else 500.
RespondTest ==
    /\ mail.pc = "sent"
    /\ mail' = [mail EXCEPT !.pc = "responded",
                            !.status = IF mail.success THEN 200 ELSE 500]
    /\ UNCHANGED <<webhook_vars, nurture_vars, llm, norm, apollo>>

NextMail == SendTest \/ RespondTest

SpecMail == InitMail /\ [][NextMail]_vars


\* ============================ apollo-integration.py: the submission workflow
\* A vacancy score is held in tenths (72 for "7.2"); the texts of the form
\* are represented by the tests the code makes on them.
\* ------------------------------------------------------------------ bounds
MaxScoreTenths == 120

\* --------------------------------------------------------- program constants
MAX_LEAD_SCORE == 100
QUALITY_FACTOR == 4
INDUSTRY_POINTS == 15
SIZE_POINTS == 15
DETAIL_POINTS == 10
EMAIL_POINTS == 5
PHONE_POINTS == 5
URGENCY_POINTS == 10

\* ------------------------------------------------------------------ inputs
\* 'score' of an analysis without a score (None).
NO_SCORE == -1

\* The numbers the pattern (\d+(?:\.\d+)?)/10 can match.
ScoreTenths == 0..MaxScoreTenths

\* form_data['employee_count']: absent, null, a text naming more than 50
\* employees, another text.
EmployeeCounts == {"", "null", "meer dan 50", "10-50"}

\* form_data, by the tests the workflow makes on it.
FormData ==
    [company_domain : BOOLEAN, employee_count : EmployeeCounts,
     long_vacancy_text : BOOLEAN, professional_email : BOOLEAN, phone : BOOLEAN,
     urgent : BOOLEAN]

\* ------------------------------------------------------------ pure helpers
\* int(vacancy_analysis['score'] * 4), when the score is set and not 0.
quality_points(score) ==
    IF score = NO_SCORE \/ score = 0 THEN 0
    ELSE (score * QUALITY_FACTOR) \div 10

\* company_info = None, and the record research_company_basic returns.
no_company_info == [present |-> FALSE, industry |-> ""]

research_company_basic == [present |-> TRUE, industry |-> "unknown"]

\* Step 2 of the workflow: the company is looked up for a form with a domain.
company_info_of(form_data) ==
    IF form_data.company_domain THEN research_company_basic ELSE no_company_info

\* any(ind in industry for ind in priority_industries), on the industry in
\* lower case.
priority_industry(industry) ==
    industry \in {"technology", "tech", "software", "healthcare", "manufacturing"}

\* calculate_lead_score raises: .lower() of a null employee_count.
lead_score_raises(form_data, company_info) ==
    company_info.present /\ form_data.employee_count = "null"

min(a, b) == IF a <= b THEN a ELSE b

\* calculate_lead_score.
calculate_lead_score(form_data, score, company_info) ==
    min(quality_points(score)
        + (IF company_info.present /\ priority_industry(company_info.industry)
           THEN INDUSTRY_POINTS ELSE 0)
        + (IF company_info.present /\ form_data.employee_count = "meer dan 50"
           THEN SIZE_POINTS ELSE 0)
        + (IF form_data.long_vacancy_text THEN DETAIL_POINTS ELSE 0)
        + (IF form_data.professional_email THEN EMAIL_POINTS ELSE 0)
        + (IF form_data.phone THEN PHONE_POINTS ELSE 0)
        + (IF form_data.urgent THEN URGENCY_POINTS ELSE 0),
        MAX_LEAD_SCORE)

\* The results of create_enhanced_pipedrive_deal and of
\* process_kandidatentekort_submission.
no_pipedrive_result == [success |-> FALSE, deal_id |-> NULL]

failed_submission == [success |-> FALSE, lead_score |-> 0, pipedrive_deal_id |-> NULL]

\* process_kandidatentekort_submission, 'success': True of the result.
submission_success(pipedrive_result) == TRUE

\* ------------------------------------------------------------------- state
idle_apollo(form_data) ==
    [pc |-> "called", form_data |-> form_data, score |-> NO_SCORE,
     lead_score |-> 0, crm_deals |-> 0, pipedrive_result |-> no_pipedrive_result,
     result |-> failed_submission]

InitApollo ==
    /\ \E form_data \in FormData : apollo = idle_apollo(form_data)
    /\ WebhookOff /\ NurtureOff /\ AnalyzeOff /\ ParserOff /\ MailOff

\* ---------------------------------------------------------------- actions
\* analyze_vacancy_with_company_context: the call fails or the answer holds
\* no score (None), or the pattern matches a number.
AnalyzeWithContext ==
    /\ apollo.pc = "called"
    /\ \E score \in {NO_SCORE} \cup ScoreTenths :
        apollo' = [apollo EXCEPT !.pc = "analyzed", !.score = score]
    /\ UNCHANGED <<webhook_vars, nurture_vars, llm, norm, mail>>

\* Step 2: research_company_basic for a form with a company domain, and
\* calculate_lead_score; an exception ends the workflow in its except clause.
ScoreLead ==
    /\ apollo.pc = "analyzed"
    /\ apollo' =
        IF lead_score_raises(apollo.form_data, company_info_of(apollo.form_data))
        THEN [apollo EXCEPT !.pc = "returned", !.result = failed_submission]
        ELSE [apollo EXCEPT !.pc = "scored",
                            !.lead_score =
                                calculate_lead_score(apollo.form_data, apollo.score,
                                                     company_info_of(apollo.form_data))]
    /\ UNCHANGED <<webhook_vars, nurture_vars, llm, norm, mail>>

\* create_enhanced_pipedrive_deal. outcome: a request before the deal raises;
\* POST /deals is answered with another status than 201; the deal and its
\* note are created; the deal is created and POST /notes raises.
CreateEnhancedDeal ==
    /\ apollo.pc = "scored"
    /\ \E outcome \in {"raised", "rejected", "created", "note_raised"} :
        apollo' = [apollo EXCEPT
            !.pc = "synced",
            !.crm_deals = IF outcome \in {"created", "note_raised"} THEN 1 ELSE 0,
            !.pipedrive_result =
                IF outcome = "created" THEN [success |-> TRUE, deal_id |-> 1]
                ELSE no_pipedrive_result]
    /\ UNCHANGED <<webhook_vars, nurture_vars, llm, norm, mail>>

\* process_kandidatentekort_submission builds its result and returns.
SubmissionReturns ==
    /\ apollo.pc = "synced"
    /\ apollo' = [apollo EXCEPT
            !.pc = "returned",
            !.result = [success |-> submission_success(apollo.pipedrive_result),
                        lead_score |-> apollo.lead_score,
                        pipedrive_deal_id |-> apollo.pipedrive_result.deal_id]]
    /\ UNCHANGED <<webhook_vars, nurture_vars, llm, norm, mail>>

NextApollo ==
    \/ AnalyzeWithContext
    \/ ScoreLead
    \/ CreateEnhancedDeal
    \/ SubmissionReturns

SpecApollo == InitApollo /\ [][NextApollo]_vars


\* =========================================================== properties
\* The calls a request has made so far.
Called(r, event) == \E i \in DOMAIN req[r].trace : req[r].trace[i] = event

TimesCalled(r, event) ==
    Cardinality({i \in DOMAIN req[r].trace : req[r].trace[i] = event})

SideEffects ==
    {"send_confirmation_email", "extract_text_from_file", "analyze_vacancy_with_claude",
     "get_analysis_email_html", "send_analysis_email", "find_person_by_email",
     "get_person_deals_in_pipeline", "update_deal_with_vacancy",
     "create_pipedrive_organization", "create_pipedrive_person", "create_pipedrive_deal"}

\* The request is at its return statement.
Returning(r) == req[r].pc = "respond"

\* The request was received and its email passed the validation.
Validated(r) ==
    /\ req[r].pc \notin {"idle", "done"}
    /\ email_is_valid(req[r].p.email)

\* The request was received and its normalized email is empty or has no '@'.
Invalid(r) ==
    /\ req[r].pc \notin {"idle", "done"}
    /\ ~email_is_valid(req[r].p.email)

CrmSyncCalls == {"update_deal_with_vacancy", "create_pipedrive_deal"}

\* C1: a request whose normalized email is empty or lacks '@' is answered
\* with status 400 and has made no call with a side effect.
C1_InvalidEmailRejected ==
    \A r \in Requests :
        (Invalid(r) /\ Returning(r)) =>
            /\ req[r].status = 400
            /\ req[r].trace = <<>>

\* C2: a validated request attempts the confirmation email exactly once, and
\* before every other call it makes.
C2_ConfirmationOnceAndFirst ==
    \A r \in Requests :
        Validated(r) =>
            IF req[r].pc = "confirm" THEN req[r].trace = <<>>
            ELSE /\ req[r].trace # <<>>
                 /\ req[r].trace[1] = "send_confirmation_email"
                 /\ TimesCalled(r, "send_confirmation_email") = 1

\* C2 witness: a request returns after a failed confirmation send, a file
\* download, an LLM call and a deal creation.
C2_Witness ==
    \E r \in Requests :
        /\ Returning(r) /\ Validated(r)
        /\ ~req[r].confirmation_sent
        /\ Called(r, "extract_text_from_file")
        /\ Called(r, "analyze_vacancy_with_claude")
        /\ Called(r, "create_pipedrive_deal")

\* C3: a validated request always returns status 200.
C3_ValidatedReturns200 ==
    \A r \in Requests :
        (Validated(r) /\ Returning(r)) => req[r].status = 200

\* C4: with a final vacancy text of 49 characters the LLM is not called, with
\* one of 50 characters or more it is.
C4_ThresholdClosedAt50 ==
    \A r \in Requests :
        (Validated(r) /\ req[r].pc \notin {"confirm", "extract", "analyze"}) =>
            /\ req[r].vacancy_text = 49 => ~Called(r, "analyze_vacancy_with_claude")
            /\ req[r].vacancy_text >= 50 => Called(r, "analyze_vacancy_with_claude")


\* Request r follows request q directly, both carry the same email, and q
\* created the person and the deal of that email, the deal being still open in
\* the pipeline and in the intake stage.
FirstCreated(q, r, person, deal) ==
    /\ r = q + 1
    /\ Validated(r)
    /\ person.by = q /\ deal.by = q
    /\ person.email = req[r].p.email
    /\ deal.person_id = person.id
    /\ deal.status = "open"
    /\ deal.pipeline_id = PIPELINE_ID
    /\ deal.stage_id = STAGE_ID

DealsOfEmail(email) ==
    {d \in deals : \E q \in persons_matching(email) : d.person_id = q.id}

\* C5 (as claimed): when a submission follows one with the same email that
\* created its person and deal, it updates that deal and creates none, so
\* that one deal exists for the email.
C5_SecondSubmissionReuses ==
    \A q, r \in Requests : \A person \in persons : \A deal \in deals :
        (FirstCreated(q, r, person, deal) /\ Returning(r) /\ req[r].status = 200) =>
            /\ Called(r, "update_deal_with_vacancy")
            /\ req[r].deal_id = deal.id
            /\ ~Called(r, "create_pipedrive_deal")
            /\ Cardinality(DealsOfEmail(req[r].p.email)) = 1

\* C5 (amended): the same, provided the person search of the second
\* submission returns the person the first one created and its deal lookup
\* returns the deal the first one created.
C5_ReusesWhenLookupsReturn ==
    \A q, r \in Requests : \A person \in persons : \A deal \in deals :
        (/\ FirstCreated(q, r, person, deal)
         /\ Returning(r)
         /\ req[r].existing_person_id = person.id
         /\ deal.id \in req[r].existing_deals) =>
            /\ Called(r, "update_deal_with_vacancy")
            /\ req[r].deal_id = deal.id
            /\ ~Called(r, "create_pipedrive_deal")
            /\ ~\E d \in deals : d.by = r
            /\ {d \in deals : d.person_id = person.id} = {deal}

\* C5 witness: a second submission returns after it updated the deal the
\* first one created.
C5_Witness ==
    \E q, r \in Requests : \E person \in persons : \E deal \in deals :
        /\ FirstCreated(q, r, person, deal)
        /\ Returning(r)
        /\ req[r].existing_person_id = person.id
        /\ deal.id \in req[r].existing_deals
        /\ req[r].deal_id = deal.id
        /\ deal.notes = 2

\* C6: a deal is updated only if it is in the pipeline and in the intake
\* stage.
C6_ReuseOnlyInIntakeStage ==
    \A r \in Requests :
        (Returning(r) /\ Called(r, "update_deal_with_vacancy")) =>
            /\ deal_by_id(req[r].deal_id).pipeline_id = PIPELINE_ID
            /\ deal_by_id(req[r].deal_id).stage_id = STAGE_ID

\* C7: every validated request attempts a deal update or a deal creation
\* before it returns.
C7_CrmSyncUnconditional ==
    \A r \in Requests :
        (Validated(r) /\ Returning(r)) => \E e \in CrmSyncCalls : Called(r, e)

\* C8: a request that got no organization id or no person id still calls
\* create_pipedrive_deal, with those null references; and a request whose deal
\* creation returned no id has attempted its confirmation email, once and
\* first.
C8_DealAttemptedWithoutOrgOrPerson ==
    \A r \in Requests :
        /\ (/\ Returning(r)
            /\ Called(r, "create_pipedrive_organization")
            /\ (req[r].org_id = NULL \/ req[r].person_id = NULL)) =>
                /\ Called(r, "create_pipedrive_deal")
                /\ req[r].deal_person_arg = req[r].person_id
                /\ req[r].deal_org_arg = req[r].org_id
        /\ (/\ Returning(r)
            /\ Called(r, "create_pipedrive_deal")
            /\ req[r].deal_id = NULL) =>
                /\ req[r].trace[1] = "send_confirmation_email"
                /\ TimesCalled(r, "send_confirmation_email") = 1

\* C8 witness: a request returns with a sent confirmation after the
\* organization, the person and the deal creation all failed.
C8_Witness ==
    \E r \in Requests :
        /\ Returning(r)
        /\ Called(r, "create_pipedrive_organization")
        /\ Called(r, "create_pipedrive_person")
        /\ Called(r, "create_pipedrive_deal")
        /\ req[r].org_id = NULL /\ req[r].person_id = NULL /\ req[r].deal_id = NULL
        /\ ~\E d \in deals : d.by = r
        /\ req[r].confirmation_sent

\* C9: while manual review is enabled no request sends the analysis report
\* email, and a synced analysis is stored in the note of the deal.
C9_ManualReviewWithholdsReport ==
    \A r \in Requests :
        manual_review =>
            /\ ~Called(r, "send_analysis_email")
            /\ (Returning(r) /\ req[r].analysis = "ok" /\ req[r].deal_id # NULL) =>
                    "ANALYSE" \in req[r].note_parts

\* C10: with manual review disabled, the analysis report email is sent after
\* the deal update or creation of the request, never before it.
C10_ReportAfterCrmSync ==
    \A r \in Requests :
        ~manual_review =>
            \A i \in DOMAIN req[r].trace :
                req[r].trace[i] = "send_analysis_email" =>
                    \E j \in 1..(i - 1) : req[r].trace[j] \in CrmSyncCalls

\* The request has attempted to send the analysis report (send_analysis_email
\* was entered, whether or not rendering the report raised).
ReportAttempted(r) ==
    Called(r, "send_analysis_email") \/ Called(r, "get_analysis_email_html")

\* C11: a request that attempted the report email has a final vacancy text
\* at or over the length threshold and got a non-empty parsed result from the
\* LLM call; a request without an analysis result has analysis_sent false.
C11_ReportOnlyWithAnalysis ==
    \A r \in Requests :
        /\ ReportAttempted(r) =>
                /\ req[r].vacancy_text >= MIN_TEXT_LEN
                /\ Called(r, "analyze_vacancy_with_claude")
                /\ req[r].analysis \notin {"None", "empty"}
        /\ req[r].analysis = "None" => ~req[r].analysis_sent

\* C11 witness: a request returns after it sent the report on the text
\* extracted from its file, the text field being under the threshold.
C11_Witness ==
    \E r \in Requests :
        /\ Returning(r)
        /\ req[r].analysis_sent
        /\ req[r].analysis = "ok"
        /\ req[r].p.vacature < MIN_TEXT_LEN
        /\ req[r].vacancy_text > MIN_TEXT_LEN

\* C12: after the download of an attachment, the vacancy text is the
\* extracted text when that has 50 characters or more, and the text field of
\* the submission otherwise; the download step itself never fails the request.
C12_ExtractionFallbackAt50 ==
    \A r \in Requests :
        (req[r].pc = "analyze" /\ Called(r, "extract_text_from_file")) =>
            /\ req[r].vacancy_text =
                    IF req[r].extracted_text >= MIN_TEXT_LEN THEN req[r].extracted_text
                    ELSE req[r].p.vacature
            /\ req[r].trace[Len(req[r].trace)] = "extract_text_from_file" =>
                    req[r].status # 500

\* The statement a note carries, according to the specification, when the
\* submission has no analysis result.
NO_ANALYSIS == "GEEN ANALYSE"

\* C13: a validated request that ends without an analysis result and with a
\* created or updated deal has appended a note to that deal, and the note
\* states that there is no analysis.
C13_NoteStatesNoAnalysis ==
    \A r \in Requests :
        (/\ Returning(r) /\ Validated(r)
         /\ req[r].status = 200
         /\ ~truthy(req[r].analysis)
         /\ req[r].deal_id # NULL) =>
            /\ req[r].note_parts # {}
            /\ NO_ANALYSIS \in req[r].note_parts

\* C14: every deal get_deals_for_nurture returns has next_email equal to
\* the step recorded on the deal plus 1 (1 when none is recorded), and the
\* days since its start date are at least the offset of that step: 1, 3, 5,
\* 8, 11, 14, 21, 30 days for the steps 1..8.
C14_NextStepAfterOffset ==
    \A i \in DOMAIN get_deals_for_nurture :
        LET entry == get_deals_for_nurture[i]
            deal == nurture_deals[entry.deal_id]
            recorded == IF deal.laatste_email = "" THEN 0
                        ELSE CHOOSE n \in 1..8 : email_options[n] = deal.laatste_email
        IN  /\ entry.next_email = recorded + 1
            /\ entry.next_email \in 1..8
            /\ deal.rapport_verzonden # NoDate
            /\ today - deal.rapport_verzonden >=
                    <<1, 3, 5, 8, 11, 14, 21, 30>>[entry.next_email]

\* C14 witness: a deal with step 7 recorded is returned for step 8, thirty
\* days after its start date.
C14_Witness ==
    \E i \in DOMAIN get_deals_for_nurture :
        LET entry == get_deals_for_nurture[i]
            deal == nurture_deals[entry.deal_id]
        IN  /\ deal.laatste_email = "Email 7"
            /\ entry.next_email = 8
            /\ today - deal.rapport_verzonden = 30

\* C15: a run of process_nurture_emails that fetched its deals after the
\* sequence of a deal was halted (status completed, paused or responded, or
\* step 8 recorded) sends no nurture email for that deal.
C15_HaltedSequenceStaysHalted ==
    \A k \in Runners :
        run[k].pc = "update" => ~Head(run[k].deals).halted_before

\* C16: at most one thread is inside process_nurture_emails at a time.
C16_NoOverlappingRuns ==
    Cardinality({k \in Runners : run[k].pc # "idle"}) <= 1

\* The request left send_analysis_email by an exception: the last call it
\* entered is the rendering of the report, and the handler answers 500.
HelperRaised(r) ==
    /\ req[r].status = 500
    /\ req[r].trace # <<>>
    /\ req[r].trace[Len(req[r].trace)] = "get_analysis_email_html"

\* C17: every integration helper the webhook calls returns to the handler;
\* none leaves by an exception, whatever the external service answered.
C17_HelpersNeverRaise ==
    \A r \in Requests : Returning(r) => ~HelperRaised(r)

\* The text between the first '{' and the last '}' of an LLM answer, both
\* included; the empty text when there is no '{' followed by a '}'.
BracedPart(text) ==
    LET opens == {i \in DOMAIN text : text[i] = "{"}
        closes == {i \in DOMAIN text : text[i] = "}"}
    IN  IF opens = {} \/ closes = {} THEN <<>>
        ELSE LET first == CHOOSE i \in opens : \A j \in opens : i <= j
                 last == CHOOSE i \in closes : \A j \in closes : j <= i
             IN  IF first < last THEN [k \in 1..(last - first + 1) |-> text[first + k - 1]]
                 ELSE <<>>

\* C18: analyze_vacancy_with_claude returns a result only when the key is
\* set, the call returned status 200 with a text, and the part of the text
\* from the first '{' to the last '}' parses as JSON; the result is then that
\* whole parsed part, and in every other case the value returned is None.
C18_ResultOnlyFromParsedJson ==
    llm.pc = "returned" =>
        LET part == BracedPart(llm.response_text)
            usable == /\ llm.api_key /\ llm.outcome = "answered"
                      /\ llm.status_code = 200 /\ llm.body_ok
                      /\ part # <<>> /\ json_accepts(part, 1, 0)
        IN  IF usable THEN ~llm.result.is_none /\ llm.result.value = part
            ELSE llm.result.is_none

\* C18 witness: a result is returned for an answer that wraps its JSON in
\* other text.
C18_Witness ==
    /\ llm.pc = "returned"
    /\ llm.response_text = <<"x", "{", "m", "}">>
    /\ ~llm.result.is_none
    /\ llm.result.value = <<"{", "m", "}">>

\* C19: a request calls analyze_vacancy_with_claude at most once, whatever
\* the call returned, and exactly once when its email is valid and its final
\* vacancy text is over the threshold.
C19_LlmCalledAtMostOnce ==
    \A r \in Requests :
        /\ TimesCalled(r, "analyze_vacancy_with_claude") <= 1
        /\ (/\ Validated(r)
            /\ req[r].pc \notin {"confirm", "extract", "analyze"}
            /\ req[r].vacancy_text > MIN_TEXT_LEN) =>
                TimesCalled(r, "analyze_vacancy_with_claude") = 1

\* C19 witness: a request returns after its one LLM call gave no result.
C19_Witness ==
    \E r \in Requests :
        /\ Returning(r) /\ Validated(r)
        /\ req[r].vacancy_text > MIN_TEXT_LEN
        /\ req[r].analysis = "None"
        /\ TimesCalled(r, "analyze_vacancy_with_claude") = 1
        /\ Called(r, "create_pipedrive_deal")

\* The emails a payload carries: the one under its own key (flat shape), the
\* ones of its email answers and of its contact blocks (nested shape).
CarriedEmails(webhook_data) ==
    {e \in {webhook_data.email} \cup
           {webhook_data.answers[i].email : i \in DOMAIN webhook_data.answers} :
        e # EmailEmpty}

\* C20: for a payload of either shape that carries one email, and that a
\* syntactically valid one, the record returned holds exactly that email.
C20_ValidEmailExtracted ==
    norm.pc = "returned" =>
        \A e \in CarriedEmails(norm.webhook_data) :
            (CarriedEmails(norm.webhook_data) = {e} /\ email_is_valid(e)) =>
                norm.result.email = e

\* No answer of the payload makes the parser raise.
NoneRaises(webhook_data) ==
    \A i \in DOMAIN webhook_data.answers : ~answer_raises(webhook_data.answers[i])

ContactBlocks(webhook_data) ==
    {webhook_data.answers[i] : i \in {j \in DOMAIN webhook_data.answers :
                                        webhook_data.answers[j].type = "contact_info"}}

\* C21: when the one contact block of a payload has an email, a first and a
\* last name, a phone number and a company, the email, first name, contact
\* name, phone and company of the record returned are those of the block,
\* wherever the other answers stand in the list.
C21_ContactBlockTakesPriority ==
    norm.pc = "returned" =>
        \A block \in ContactBlocks(norm.webhook_data) :
            (/\ ContactBlocks(norm.webhook_data) = {block}
             /\ NoneRaises(norm.webhook_data)
             /\ block.email # EmailEmpty /\ block.first_name # ""
             /\ block.last_name # "" /\ block.phone_number # ""
             /\ block.company # "") =>
                /\ norm.result.email = block.email
                /\ norm.result.voornaam = block.first_name
                /\ norm.result.contact = block.first_name \o " " \o block.last_name
                /\ norm.result.telefoon = block.phone_number
                /\ norm.result.bedrijf = block.company

\* The nine fields of a normalized record.
SubmissionFields ==
    {"email", "voornaam", "contact", "telefoon", "bedrijf", "vacature", "functie",
     "sector", "file_url"}

\* A malformed entry of the answers list: no object, or a short text that is
\* null.
Malformed(answer) ==
    \/ answer.type = "not_a_dict"
    \/ answer.type = "short_text" /\ answer.text = NULL_TEXT

WellFormed(answer) == ~Malformed(answer)

\* C22: parse_typeform_data returns a record with all nine fields, and that
\* record is the one the well-formed answers of the list alone yield: each
\* malformed entry is skipped by itself.
C22_MalformedAnswerSkipped ==
    norm.pc = "returned" =>
        /\ DOMAIN norm.result = SubmissionFields
        /\ norm.result =
            parse_typeform_data([norm.webhook_data EXCEPT
                                    !.answers = SelectSeq(@, WellFormed)])

\* The labels joined into one comma-separated string.
RECURSIVE joined(_)
joined(labels) ==
    IF labels = <<>> THEN ""
    ELSE IF Len(labels) = 1 THEN labels[1]
    ELSE labels[1] \o ", " \o joined(Tail(labels))

\* C24: the selected labels of the one multiple-choice answer of a payload,
\* a multi-select one, are in the sector of the record returned, joined into
\* one string.
C24_MultiSelectJoined ==
    norm.pc = "returned" =>
        \A i \in DOMAIN norm.webhook_data.answers :
            LET answers == norm.webhook_data.answers IN
            (/\ answers[i].type = "multiple_choice"
             /\ answers[i].choices # <<>>
             /\ \A j \in DOMAIN answers : j # i => answers[j].type # "multiple_choice"
             /\ NoneRaises(norm.webhook_data)) =>
                norm.result.sector = joined(answers[i].choices)

\* C23: a step number outside 1..8 makes send_nurture_email return False
\* without handing a message to the SMTP server, and GET /nurture/test/<n>
\* answer 500.
C23_UnknownStepIsHardError ==
    (mail.pc # "requested" /\ mail.email_num \notin 1..8) =>
        /\ ~mail.delivered
        /\ ~mail.success
        /\ mail.pc = "responded" => mail.status = 500

\* C23 witness: step 9 is answered with 500 although the password is set and
\* the SMTP server is reachable.
C23_Witness ==
    /\ mail.pc = "responded"
    /\ mail.email_num = 9
    /\ mail.password /\ mail.smtp = "ok"
    /\ mail.status = 500
    /\ ~mail.delivered

\* The deal a runner is about to email: the first of the deals it fetched.
Emailing(k, id) ==
    /\ run[k].pc = "loop" /\ run[k].deals # <<>>
    /\ Head(run[k].deals).deal_id = id

C26_StepEmailedAtMostOnce ==
    [][\A k \in Runners :
            (run[k].pc = "loop" /\ run'[k].pc = "update") =>
                Head(run[k].deals).next_email \notin
                    nurture_deals[Head(run[k].deals).deal_id].sent
      ]_vars

\* The event is among the calls of a trace.
InTrace(trace, event) == \E i \in DOMAIN trace : trace[i] = event

\* What a request that found a person, and one that found a deal of that
\* person, has not done: no person, organization or deal was created by it.
ReturningFrame(r, rq, all_persons, all_deals) ==
    /\ rq.existing_person_id # NULL =>
            /\ ~InTrace(rq.trace, "create_pipedrive_person")
            /\ ~\E q \in all_persons : q.by = r
    /\ rq.existing_deals # {} =>
            /\ ~InTrace(rq.trace, "create_pipedrive_organization")
            /\ ~InTrace(rq.trace, "create_pipedrive_deal")
            /\ ~\E d \in all_deals : d.by = r

\* The step of request r is its call of update_deal_with_vacancy: one deal
\* among those found has its title and its notes changed at most, by the
\* given numbers of notes, and every other record is left as it was.
UpdateStep(r, added) ==
    /\ persons' = persons /\ orgs' = orgs
    /\ \E d \in deals :
        /\ d.id \in req[r].existing_deals
        /\ \E d2 \in deals' :
            /\ deals' = (deals \ {d}) \cup {d2}
            /\ d2 = [d EXCEPT !.title = d2.title, !.notes = d2.notes]
            /\ d2.title \in {d.title, "Vacature Analyse"}
            /\ d2.notes - d.notes \in added

\* C28 (as claimed): a request that found a person creates no person, one
\* that also found an open deal in the pipeline creates no organization and
\* no deal, and its update changes the title of that deal and appends exactly
\* one note to it.
C28_UpdateAppendsOneNote ==
    [][\A r \in Requests :
            /\ ReturningFrame(r, req'[r], persons', deals')
            /\ (req[r].pc = "update" /\ req'[r].pc # "update") => UpdateStep(r, {1})
      ]_vars

\* C28 (amended): the same, the update appending one note or, when a request
\* to Pipedrive fails, none; a note is appended only when the title request
\* did not raise.
C28_ReturningSubmitterFrame ==
    [][\A r \in Requests :
            /\ ReturningFrame(r, req'[r], persons', deals')
            /\ (req[r].pc = "update" /\ req'[r].pc # "update") =>
                    /\ UpdateStep(r, {0, 1})
                    /\ req'[r].note_parts = {} => deals' = deals
      ]_vars

\* C28 witness: a request returns after it found the Meta lead and its deal
\* and appended the first note to that deal; the CRM holds nothing else.
C28_Witness ==
    \E r \in Requests :
        /\ Returning(r)
        /\ req[r].updated_existing
        /\ req[r].existing_person_id = MetaLead.id
        /\ req[r].deal_id \in req[r].existing_deals
        /\ persons = {MetaLead} /\ orgs = 0
        /\ deals = {Deal(1, 1, NULL, PIPELINE_ID, STAGE_ID, "open", "Vacature Analyse", 1, 0)}

\* C27: whatever the interleaving of the requests of one email, the CRM
\* holds at most one person and at most one deal created by them.
C27_OnePersonOneDealPerEmail ==
    /\ Cardinality({q \in persons : q.by # 0 /\ q.email = EmailAB}) <= 1
    /\ Cardinality({d \in deals : d.by # 0}) <= 1

\* C29: the lead score computed for a submission is between 0 and 100, and
\* the points it holds for the vacancy quality are between 0 and 40.
C29_LeadScoreWithinBounds ==
    apollo.pc \in {"scored", "synced"} =>
        /\ apollo.lead_score \in 0..100
        /\ quality_points(apollo.score) \in 0..40

\* C30: a submission reported with success=True has the id of the deal that
\* was created for it.
C30_SuccessMeansDealCreated ==
    (apollo.pc = "returned" /\ apollo.result.success) =>
        apollo.result.pipedrive_deal_id # NULL

====
